---- MODULE Spec2Model ----
(***************************************************************************)
(* gyptest.py -- the test runner for GYP tests.                            *)
(*                                                                         *)
(* The module models src/gyptest.py: the test discovery                    *)
(* (is_test_name, find_all_gyptest_files) and main(): argument handling,   *)
(* test selection, --list, format resolution, the (format x test) matrix   *)
(* of child processes, the classification of their exit codes, the echo    *)
(* of their output, the report and the exit code.                          *)
(*                                                                         *)
(* Python strings are TLA+ strings; they are compared, sliced and          *)
(* concatenated character by character as Python does.                     *)
(***************************************************************************)
EXTENDS Integers, Sequences, FiniteSets, TLC

VARIABLES
    tree,         \* the file system: directory path -> [dirs, files] (os.listdir order)
    found,        \* the value returned by find_all_gyptest_files (discovery runs)
    argv_ok,      \* FALSE when argv holds an option argparse does not accept
    args,         \* the argparse namespace
    platform,     \* sys.platform
    pc,           \* position of main(): "start", "loop", "wait", "report", "done"
    tests,        \* main's local list of test paths
    format_list,  \* main's local list of formats
    failed,       \* main's local list of "(format) test" identities
    i,            \* main's invocation counter (1-based)
    num_tests,    \* len(tests) * len(format_list)
    fpos,         \* index into format_list of the outer loop
    tpos,         \* index into tests of the inner loop
    env,          \* TESTGYP_FORMAT in the environment handed to children
    proc,         \* the subprocess.Popen object of the current iteration
    launched,     \* every Popen call so far, in order
    out,          \* what the latest step wrote to stdout
    err,          \* what the latest step wrote to stderr
    exit_code,    \* the status the process exits with, <<>> while running
    how           \* how main() ended: "return", "sys.exit", "raise", "argparse"

vars == <<tree, found, argv_ok, args, platform, pc, tests, format_list, failed,
          i, num_tests, fpos, tpos, env, proc, launched, out, err, exit_code, how>>

(***************************************************************************)
(* Bounds of the model.                                                    *)
(***************************************************************************)
MaxFiles == 2     \* files listed in one directory of a discovery run
MaxArgs == 2      \* positional test arguments on the command line

(***************************************************************************)
(* Strings.                                                                *)
(***************************************************************************)
\* str.startswith
StartsWith(s, p) == Len(s) >= Len(p) /\ SubSeq(s, 1, Len(p)) = p

\* str.endswith
EndsWith(s, p) == Len(s) >= Len(p) /\ SubSeq(s, Len(s) - Len(p) + 1, Len(s)) = p

\* ord() of the characters the model's strings are made of
Ord ==
    ("\n" :> 10) @@ (" " :> 32) @@ ("(" :> 40) @@ (")" :> 41) @@ ("," :> 44) @@
    ("-" :> 45) @@ ("." :> 46) @@ ("/" :> 47) @@
    ("A" :> 65) @@ ("D" :> 68) @@ ("E" :> 69) @@ ("F" :> 70) @@ ("I" :> 73) @@
    ("L" :> 76) @@ ("N" :> 78) @@ ("O" :> 79) @@ ("P" :> 80) @@ ("R" :> 82) @@
    ("S" :> 83) @@ ("T" :> 84) @@ ("U" :> 85) @@
    ("a" :> 97) @@ ("b" :> 98) @@ ("c" :> 99) @@ ("e" :> 101) @@ ("f" :> 102) @@
    ("g" :> 103) @@ ("i" :> 105) @@ ("j" :> 106) @@ ("k" :> 107) @@
    ("m" :> 109) @@ ("n" :> 110) @@ ("o" :> 111) @@ ("p" :> 112) @@
    ("s" :> 115) @@ ("t" :> 116) @@ ("v" :> 118) @@ ("x" :> 120) @@ ("y" :> 121)

\* Python's str.__lt__: lexicographic by code point, a proper prefix first
RECURSIVE StrLess(_, _)
StrLess(a, b) ==
    IF b = "" THEN FALSE
    ELSE IF a = "" THEN TRUE
    ELSE IF Head(a) = Head(b) THEN StrLess(Tail(a), Tail(b))
    ELSE Ord[Head(a)] < Ord[Head(b)]

\* list.sort() on a list of strings (insertion into a sorted list)
RECURSIVE Insert(_, _)
Insert(x, s) ==
    IF s = <<>> THEN <<x>>
    ELSE IF StrLess(Head(s), x) THEN <<Head(s)>> \o Insert(x, Tail(s))
    ELSE <<x>> \o s

RECURSIVE Sort(_)
Sort(s) == IF s = <<>> THEN <<>> ELSE Insert(Head(s), Sort(Tail(s)))

(***************************************************************************)
(* Test discovery.                                                         *)
(***************************************************************************)
is_test_name(f) == StartsWith(f, "gyptest") /\ EndsWith(f, ".py")

\* os.path.join(root, f) for a non-empty root without trailing separator
join(root, f) == root \o "/" \o f

\* [x for x in s if is_test_name(x)], joined to root
RECURSIVE Matching(_, _)
Matching(root, files) ==
    IF files = <<>> THEN <<>>
    ELSE (IF is_test_name(Head(files)) THEN <<join(root, Head(files))>> ELSE <<>>)
         \o Matching(root, Tail(files))

\* os.walk(top), top-down: the triple of top, then the walk of each of its dirs
RECURSIVE Walk(_, _)
RECURSIVE WalkDirs(_, _, _)
Walk(t, top) ==
    IF top \notin DOMAIN t THEN <<>>
    ELSE <<[root |-> top, dirs |-> t[top].dirs, files |-> t[top].files]>>
         \o WalkDirs(t, top, t[top].dirs)
WalkDirs(t, top, ds) ==
    IF ds = <<>> THEN <<>>
    ELSE Walk(t, join(top, Head(ds))) \o WalkDirs(t, top, Tail(ds))

\* the loop body of find_all_gyptest_files over the walk
RECURSIVE Extend(_)
Extend(w) ==
    IF w = <<>> THEN <<>>
    ELSE Matching(Head(w).root, Head(w).files) \o Extend(Tail(w))

find_all_gyptest_files_unsorted(t, directory) == Extend(Walk(t, directory))

find_all_gyptest_files(t, directory) == Sort(Extend(Walk(t, directory)))

(***************************************************************************)
(* Discovery runs: find_all_gyptest_files on every tree of a bounded       *)
(* family.  A tree is test/, optionally test/a/, optionally test/a/.svn/;  *)
(* each directory lists up to MaxFiles files in any os.listdir order.      *)
(***************************************************************************)
FileNames == {"gyptest.py", "gyptest-a.py", "gyptest.pyc", "xgyptest.py"}

Listings ==
    {s \in UNION {[1..n -> FileNames] : n \in 0..MaxFiles} :
        \A j, k \in DOMAIN s : j # k => s[j] # s[k]}

Leaf(files) == [dirs |-> <<>>, files |-> files]

Trees ==
    {("test" :> Leaf(ft)) : ft \in Listings}
    \cup {("test" :> [dirs |-> <<"a">>, files |-> ft]) @@ ("test/a" :> Leaf(fa)) :
            ft \in Listings, fa \in Listings}
    \cup {("test" :> [dirs |-> <<"a">>, files |-> ft])
          @@ ("test/a" :> [dirs |-> <<".svn">>, files |-> fa])
          @@ ("test/a/.svn" :> Leaf(fs)) :
            ft \in Listings, fa \in Listings, fs \in Listings}

\* main() has not been entered
MainIdle ==
    /\ argv_ok = TRUE
    /\ args = [all |-> FALSE, list |-> FALSE, no_exec |-> FALSE, quiet |-> FALSE,
               path |-> <<>>, gyp_option |-> <<>>, format |-> "", tests |-> <<>>]
    /\ platform = "linux2"
    /\ tests = <<>> /\ format_list = <<>> /\ failed = <<>>
    /\ i = 0 /\ num_tests = 0 /\ fpos = 0 /\ tpos = 0
    /\ env = "" /\ proc = <<>> /\ launched = <<>>
    /\ out = <<>> /\ err = <<>> /\ exit_code = <<>> /\ how = ""

InitFind ==
    /\ tree \in Trees
    /\ found = <<>>
    /\ pc = "find"
    /\ MainIdle

\* one call find_all_gyptest_files(directory)
Discover ==
    /\ pc = "find"
    /\ \E d \in DOMAIN tree :
          found' = <<[directory |-> d, result |-> find_all_gyptest_files(tree, d)]>>
    /\ pc' = "found"
    /\ UNCHANGED <<tree, argv_ok, args, platform, tests, format_list, failed, i,
                   num_tests, fpos, tpos, env, proc, launched, out, err,
                   exit_code, how>>

NextFind == Discover

SpecFind == InitFind /\ [][NextFind]_vars

(***************************************************************************)
(* main(): inputs.                                                         *)
(***************************************************************************)
\* the file system main() runs in: test/lib.py, test/b/gyptest-b.py, doc/gyptest.txt
MainTree ==
    ("test" :> [dirs |-> <<"b">>, files |-> <<"lib.py">>])
    @@ ("test/b" :> Leaf(<<"gyptest-b.py">>))
    @@ ("doc" :> Leaf(<<"gyptest.txt">>))

\* positional arguments: a directory with a test, a well-named file, a badly
\* named file, a directory without tests
ArgPool == {"test/", "./gyptest-a.py", "gyptest/foo.py", "doc"}

\* values of -f; "" is the default (no -f)
FormatArgs == {"", "make", "make,ninja", "ninja,"}

\* sys.platform: one with a default format list, one without
Platforms == {"linux2", "sunos5"}

\* exit codes of a child (a negative returncode: killed by a signal)
ReturnCodes == {0, 1, 2, -9}

\* what a child writes to its merged stdout/stderr
Stdouts == {"PASSED\n", "NO RESULT\n", "oops\nFAILED\n", "xPASSED\n", "PASSED"}

\* the namespaces parse_args returns; -C is left out: the file system is the
\* one seen from the directory the runner has changed to
Namespaces ==
    [all : BOOLEAN, list : BOOLEAN, no_exec : BOOLEAN, quiet : BOOLEAN,
     path : {<<>>, <<"bin">>}, gyp_option : {<<>>, <<"k=v">>},
     format : FormatArgs,
     tests : UNION {[1..n -> ArgPool] : n \in 0..MaxArgs}]

(***************************************************************************)
(* main(): helpers.                                                        *)
(***************************************************************************)
\* os.path.normpath for a relative path whose only redundancy is trailing "/"
RECURSIVE normpath(_)
normpath(p) ==
    IF Len(p) > 1 /\ EndsWith(p, "/") THEN normpath(SubSeq(p, 1, Len(p) - 1)) ELSE p

\* os.path.isdir
isdir(t, p) == normpath(p) \in DOMAIN t

\* os.path.basename: what follows the last "/"
basename_whole(p) == p

RECURSIVE basename(_)
basename(p) ==
    IF \E k \in 1..Len(p) : SubSeq(p, k, k) = "/"
    THEN basename(Tail(p))
    ELSE p

\* the loop of lines 69-77 over the remaining arguments; the result is the list
\* of tests, or the argument that stopped the loop with sys.exit(1)
RECURSIVE SelectTests(_, _, _)
SelectTests(t, rest, acc) ==
    IF rest = <<>> THEN [ok |-> TRUE, tests |-> acc, arg |-> ""]
    ELSE IF isdir(t, Head(rest))
         THEN SelectTests(t, Tail(rest),
                          acc \o find_all_gyptest_files(t, normpath(Head(rest))))
    ELSE IF ~is_test_name(basename(Head(rest)))
         THEN [ok |-> FALSE, tests |-> acc, arg |-> Head(rest)]
    ELSE SelectTests(t, Tail(rest), Append(acc, Head(rest)))

\* str.split(',')
RECURSIVE SplitComma(_, _)
SplitComma(s, cur) ==
    IF s = "" THEN <<cur>>
    ELSE IF Head(s) = "," THEN <<cur>> \o SplitComma(Tail(s), "")
    ELSE SplitComma(Tail(s), cur \o Head(s))

\* the table of default formats keyed by sys.platform
DefaultFormats ==
    ("aix5" :> <<"make">>) @@ ("freebsd7" :> <<"make">>) @@
    ("freebsd8" :> <<"make">>) @@ ("openbsd5" :> <<"make">>) @@
    ("cygwin" :> <<"msvs">>) @@ ("win32" :> <<"msvs", "ninja">>) @@
    ("linux" :> <<"make", "ninja">>) @@ ("linux2" :> <<"make", "ninja">>) @@
    ("linux3" :> <<"make", "ninja">>) @@
    ("darwin" :> <<"make", "ninja", "xcode", "xcode-ninja">>)

\* gyp_options: ['-G', option] for every option
RECURSIVE GypOptions(_)
GypOptions(opts) ==
    IF opts = <<>> THEN <<>> ELSE <<"-G", Head(opts)>> \o GypOptions(Tail(opts))

\* math.ceil(math.log(n, 10)) for n >= 1
RECURSIVE CeilLog10(_, _, _)
CeilLog10(n, d, pow) == IF pow >= n THEN d ELSE CeilLog10(n, d + 1, pow * 10)

\* str.splitlines() for text whose only line break is "\n"
RECURSIVE splitlines(_, _)
splitlines(s, cur) ==
    IF s = "" THEN (IF cur = "" THEN <<>> ELSE <<cur>>)
    ELSE IF Head(s) = "\n" THEN <<cur>> \o splitlines(Tail(s), "")
    ELSE splitlines(Tail(s), cur \o Head(s))

\* lines 156-162: the classification of proc.returncode
ClassifyTwoFails(returncode) ==
    IF returncode # 0 THEN "failed" ELSE "passed"

ClassifyPositiveOnly(returncode) ==
    IF returncode = 2 THEN "skipped"
    ELSE IF returncode > 0 THEN "failed"
    ELSE "passed"

Classify(returncode) ==
    IF returncode = 2 THEN "skipped"
    ELSE IF returncode # 0 THEN "failed"
    ELSE "passed"

\* line 166: whether the captured output is echoed
EchoesLastLine(stdout) ==
    LET ls == splitlines(stdout, "") IN
    ls = <<>> \/ ls[Len(ls)] \notin {"PASSED", "NO RESULT"}

Echoes(stdout) ==
    ~EndsWith(stdout, "PASSED\n") /\ ~EndsWith(stdout, "NO RESULT\n")

\* lines 167-168: the echoed lines
RECURSIVE Indented(_)
Indented(ls) ==
    IF ls = <<>> THEN <<>>
    ELSE <<[kind |-> "echo", text |-> "    " \o Head(ls)]>> \o Indented(Tail(ls))

\* line 160: the identity recorded for a failed invocation
Identity(format_, test) == "(" \o format_ \o ") " \o test

\* lines 140, 143, 170: the positions of the next iteration of the two loops
AfterTestStopAtEnd(f, t, n) == IF t < n THEN <<f, t + 1>> ELSE <<f + 1, n + 1>>

AfterTest(f, t, n) == IF t < n THEN <<f, t + 1>> ELSE <<f + 1, 1>>

\* lines 188-191: the value main() returns
ReturnValue(fl) == IF fl # <<>> THEN 1 ELSE 0

\* lines 173-186: the report and the summary
Report(fl, n) ==
    (IF fl # <<>>
     THEN <<[kind |-> "failed", count |-> Len(fl), tests |-> fl]>>
     ELSE <<>>)
    \o <<[kind |-> "summary", ran |-> n, failed |-> Len(fl)],
         [kind |-> "blank"]>>

\* lines 88-104: the configuration header.  Line 101 of the source lacks the
\* closing parenthesis of its print call, so the file as it stands does not
\* compile; the line is modelled as the print call it spells out.
Header(plat, pythonpath) ==
    <<[kind |-> "config", text |-> "Test configuration:"]>>
    \o (IF plat \in {"linux", "linux2"}
        THEN <<[kind |-> "config", text |-> "  Linux"]>> ELSE <<>>)
    \o <<[kind |-> "config", text |-> "  Python"],
         [kind |-> "config", text |-> "  PYTHONPATH=" \o pythonpath],
         [kind |-> "blank"]>>

(***************************************************************************)
(* main(): the state machine.                                              *)
(***************************************************************************)
Init ==
    /\ tree = MainTree
    /\ found = <<>>
    /\ \/ /\ argv_ok = TRUE
          /\ args \in Namespaces
          /\ platform \in Platforms
          /\ args.format # "" => platform = "linux2"
       \/ /\ argv_ok = FALSE
          /\ args = [all |-> FALSE, list |-> FALSE, no_exec |-> FALSE,
                     quiet |-> FALSE, path |-> <<>>, gyp_option |-> <<>>,
                     format |-> "", tests |-> <<>>]
          /\ platform = "linux2"
    /\ pc = "start"
    /\ tests = <<>> /\ format_list = <<>> /\ failed = <<>>
    /\ i = 0 /\ num_tests = 0 /\ fpos = 0 /\ tpos = 0
    /\ env = "" /\ proc = <<>> /\ launched = <<>>
    /\ out = <<>> /\ err = <<>> /\ exit_code = <<>> /\ how = ""

\* main() ends with the given status before the matrix is set up
Stop(status, by, stdout_, stderr_, tests_) ==
    /\ pc' = "done"
    /\ exit_code' = <<status>>
    /\ how' = by
    /\ out' = stdout_
    /\ err' = stderr_
    /\ tests' = tests_
    /\ UNCHANGED <<tree, found, argv_ok, args, platform, format_list, failed, i,
                   num_tests, fpos, tpos, env, proc, launched>>

\* line 53: argparse rejects the command line (parser.error exits with 2)
ParseError ==
    /\ pc = "start"
    /\ ~argv_ok
    /\ Stop(2, "argparse", <<>>, <<[kind |-> "usage"]>>, <<>>)

\* lines 58-59: --path reads the undefined name opts
PathError ==
    /\ pc = "start"
    /\ argv_ok
    /\ args.path # <<>>
    /\ Stop(1, "raise", <<>>, <<[kind |-> "traceback", text |-> "NameError"]>>, <<>>)

\* lines 63-66: neither tests nor -a
NoTests ==
    /\ pc = "start"
    /\ argv_ok
    /\ args.path = <<>>
    /\ args.tests = <<>>
    /\ ~args.all
    /\ Stop(1, "return", <<>>,
            <<[kind |-> "error", text |-> "Specify -a to get all tests.\n"]>>, <<>>)

\* args.tests after lines 63-67
Requested == IF args.tests = <<>> THEN <<"test">> ELSE args.tests

\* the outcome of lines 69-77
Selected == SelectTests(tree, Requested, <<>>)

\* main() gets as far as the test selection
Selecting ==
    /\ pc = "start"
    /\ argv_ok
    /\ args.path = <<>>
    /\ args.tests # <<>> \/ args.all

\* lines 74-76: an argument that is neither a directory nor a test name
BadName ==
    /\ Selecting
    /\ ~Selected.ok
    /\ Stop(1, "sys.exit", <<>>,
            <<[kind |-> "error",
               text |-> Selected.arg \o " is not a valid gyp test name.\n"]>>,
            Selected.tests)

\* print(test) for every test
RECURSIVE Listing(_)
Listing(ts) ==
    IF ts = <<>> THEN <<>>
    ELSE <<[kind |-> "test", text |-> Head(ts)]>> \o Listing(Tail(ts))

\* lines 79-82: --list
List ==
    /\ Selecting
    /\ Selected.ok
    /\ args.list
    /\ Stop(0, "sys.exit", Listing(Selected.tests), <<>>, Selected.tests)

\* what lines 88-107 print
Preamble ==
    (IF ~args.quiet THEN Header(platform, "/cwd/test/lib") ELSE <<>>)
    \o (IF args.gyp_option # <<>> /\ ~args.quiet
        THEN <<[kind |-> "options", options |-> args.gyp_option]>> ELSE <<>>)

\* main() gets as far as the format resolution
Resolving ==
    /\ Selecting
    /\ Selected.ok
    /\ ~args.list

\* lines 111-125: no -f and a platform missing from the table (KeyError)
NoFormats ==
    /\ Resolving
    /\ args.format = ""
    /\ platform \notin DOMAIN DefaultFormats
    /\ Stop(1, "raise", Preamble,
            <<[kind |-> "traceback", text |-> "KeyError"]>>, Selected.tests)

\* format_list after lines 111-125
Formats ==
    IF args.format # "" THEN SplitComma(args.format, "") ELSE DefaultFormats[platform]

\* line 136: math.log(0, 10) (ValueError) when no test was selected
NoInvocations ==
    /\ Resolving
    /\ args.format # "" \/ platform \in DOMAIN DefaultFormats
    /\ Len(Selected.tests) * Len(Formats) = 0
    /\ pc' = "done"
    /\ exit_code' = <<1>>
    /\ how' = "raise"
    /\ out' = Preamble
    /\ err' = <<[kind |-> "traceback", text |-> "ValueError"]>>
    /\ tests' = Selected.tests
    /\ format_list' = Formats
    /\ i' = 1
    /\ num_tests' = 0
    /\ UNCHANGED <<tree, found, argv_ok, args, platform, failed, fpos, tpos, env,
                   proc, launched>>

\* lines 53-138: everything up to the first iteration of the loops
Begin ==
    /\ Resolving
    /\ args.format # "" \/ platform \in DOMAIN DefaultFormats
    /\ Len(Selected.tests) * Len(Formats) > 0
    /\ pc' = "loop"
    /\ out' = Preamble
    /\ tests' = Selected.tests
    /\ format_list' = Formats
    /\ failed' = <<>>
    /\ i' = 1
    /\ num_tests' = Len(Selected.tests) * Len(Formats)
    /\ fpos' = 1
    /\ tpos' = 1
    /\ UNCHANGED <<tree, found, argv_ok, args, platform, env, proc, launched, err,
                   exit_code, how>>

\* line 144: the command of the current iteration
Cmd == <<"python", tests[tpos]>> \o GypOptions(args.gyp_option)

\* line 141: TESTGYP_FORMAT, set when the outer loop enters a format
ChildEnvFirstOnly(fl, f, t, cur) == IF f = 1 /\ t = 1 THEN fl[f] ELSE cur

ChildEnv(fl, f, t, cur) == IF t = 1 THEN fl[f] ELSE cur

\* lines 140-150: the progress line and Popen
Launch ==
    /\ pc = "loop"
    /\ env' = ChildEnv(format_list, fpos, tpos, env)
    /\ out' = <<[kind |-> "progress", index |-> i, total |-> num_tests,
                 width |-> CeilLog10(num_tests, 0, 1),
                 format |-> format_list[fpos], cmd |-> Tail(Cmd)]>>
    /\ proc' = <<[cmd |-> Cmd, env |-> env', returncode |-> <<>>, stdout |-> ""]>>
    /\ launched' = Append(launched,
                          [fpos |-> fpos, tpos |-> tpos, cmd |-> Cmd, env |-> env',
                           index |-> i, total |-> num_tests, exit |-> "running"])
    /\ pc' = "wait"
    /\ UNCHANGED <<tree, found, argv_ok, args, platform, tests, format_list,
                   failed, i, num_tests, fpos, tpos, err, exit_code, how>>

\* what the log keeps of an exit code
ExitClass(returncode) == IF returncode \in {0, 2} THEN "0 or 2" ELSE "other"

\* lines 151-170: the child exits; classification, result line, echo, i += 1
ChildExit ==
    /\ pc = "wait"
    /\ \E returncode \in ReturnCodes, stdout \in Stdouts :
        LET res == Classify(returncode)
            nxt == AfterTest(fpos, tpos, Len(tests))
        IN  /\ proc' = <<[proc[1] EXCEPT !.returncode = <<returncode>>,
                                         !.stdout = stdout]>>
            /\ launched' = [launched EXCEPT ![Len(launched)].exit =
                                                ExitClass(returncode)]
            /\ failed' = IF res = "failed"
                         THEN Append(failed, Identity(format_list[fpos], tests[tpos]))
                         ELSE failed
            /\ out' = <<[kind |-> "result", res |-> res]>>
                      \o (IF Echoes(stdout) THEN Indented(splitlines(stdout, ""))
                          ELSE <<>>)
            /\ i' = i + 1
            /\ fpos' = nxt[1]
            /\ tpos' = nxt[2]
            /\ pc' = IF nxt[1] <= Len(format_list) /\ nxt[2] <= Len(tests)
                     THEN "loop" ELSE "report"
    /\ UNCHANGED <<tree, found, argv_ok, args, platform, tests, format_list,
                   num_tests, env, err, exit_code, how>>

\* lines 172-191: the report and the return
Finish ==
    /\ pc = "report"
    /\ out' = IF ~args.quiet THEN Report(failed, num_tests) ELSE <<>>
    /\ exit_code' = <<ReturnValue(failed)>>
    /\ how' = "return"
    /\ pc' = "done"
    /\ UNCHANGED <<tree, found, argv_ok, args, platform, tests, format_list,
                   failed, i, num_tests, fpos, tpos, env, proc, launched, err>>

Next ==
    \/ ParseError
    \/ PathError
    \/ NoTests
    \/ BadName
    \/ List
    \/ NoFormats
    \/ NoInvocations
    \/ Begin
    \/ Launch
    \/ ChildExit
    \/ Finish

Spec == Init /\ [][Next]_vars

(***************************************************************************)
(* C6.  Discovery.                                                         *)
(***************************************************************************)
\* version-control metadata directories
VcsNames == {".svn", ".git", ".hg", "CVS"}

\* the directories at or below d
Below(d) == {x \in DOMAIN tree : x = d \/ StartsWith(x, d \o "/")}

\* the directories at or below d that are, or lie inside, a metadata directory
InVcs(d) == {x \in Below(d) : \E v \in VcsNames :
                \E k \in 1..Len(x) : SubSeq(x, k, Len(x)) = "/" \o v
                                     \/ StartsWith(SubSeq(x, k, Len(x)), "/" \o v \o "/")}

Range(s) == {s[k] : k \in DOMAIN s}

\* the paths of the files named gyptest*.py in the directories ds
TestPaths(ds) ==
    UNION {{x \o "/" \o g : g \in {f \in Range(tree[x].files) :
                /\ Len(f) >= 7 /\ SubSeq(f, 1, 7) = "gyptest"
                /\ Len(f) >= 3 /\ SubSeq(f, Len(f) - 2, Len(f)) = ".py"}} : x \in ds}

IsSortedNoRepeat(s) == \A j, k \in DOMAIN s : j < k => StrLess(s[j], s[k])

\* C6 as stated: find_all_gyptest_files(D) returns exactly the gyptest*.py files
\* below D that are not inside a version-control metadata directory, without
\* repetition, in lexicographically sorted order.
C6_ExcludesVcs ==
    pc = "found" =>
        LET r == found[1] IN
        /\ Range(r.result) = TestPaths(Below(r.directory) \ InVcs(r.directory))
        /\ IsSortedNoRepeat(r.result)

\* C6 (amended): find_all_gyptest_files(D) returns exactly the gyptest*.py files
\* below D, those inside version-control metadata directories included, without
\* repetition, in lexicographically sorted order.
C6_Discovery ==
    pc = "found" =>
        LET r == found[1] IN
        /\ Range(r.result) = TestPaths(Below(r.directory))
        /\ IsSortedNoRepeat(r.result)
        /\ Len(r.result) = Cardinality(TestPaths(Below(r.directory)))

\* C6 witness: a discovery over a nested tree that returned several tests, with
\* non-matching files left out
C6_Witness ==
    /\ pc = "found"
    /\ found[1].directory = "test"
    /\ "test/a" \in DOMAIN tree
    /\ Len(found[1].result) >= 2
    /\ \E f \in Range(tree["test"].files) : join("test", f) \notin Range(found[1].result)

(***************************************************************************)
(* Claims about main().                                                    *)
(***************************************************************************)
\* the matrix ran to completion and main() returned
Completed == pc = "done" /\ tests # <<>> /\ format_list # <<>>

\* a child has just exited and its result has been printed
JustExited == pc \in {"loop", "report"} /\ proc # <<>> /\ proc[1].returncode # <<>>

\* the invocations logged for the f-th format and the t-th test
Runs(f, t) == {k \in DOMAIN launched : launched[k].fpos = f /\ launched[k].tpos = t}

\* the logged children that exited with a code other than 0 and 2
OtherExits == {k \in DOMAIN launched : launched[k].exit = "other"}

\* C1: when the matrix has run to completion every (format, test) entry has been
\* launched exactly once, so the launches number |tests| * |formats|, whatever
\* the children returned; no entry is ever launched twice.
C1_ExactlyOnce ==
    /\ \A f \in DOMAIN format_list, t \in DOMAIN tests : Cardinality(Runs(f, t)) <= 1
    /\ Completed =>
         /\ Len(launched) = Len(tests) * Len(format_list)
         /\ \A f \in DOMAIN format_list, t \in DOMAIN tests :
              /\ Cardinality(Runs(f, t)) = 1
              /\ \A k \in Runs(f, t) : /\ launched[k].cmd[2] = tests[t]
                                       /\ launched[k].env = format_list[f]

\* C1 witness: a completed 2 x 2 matrix in which a child other than the last failed
C1_Witness ==
    /\ Completed
    /\ Len(tests) = 2 /\ Len(format_list) = 2
    /\ Len(launched) = 4
    /\ 1 \in OtherExits

\* C2: a child exiting with a nonzero code other than 2 is classified "failed",
\* its "(format) test" identity is appended to the failure list, and main()
\* returns 1 once the matrix has completed.
C2_FailedExitsOne ==
    /\ (JustExited /\ proc[1].returncode[1] \notin {0, 2}) =>
          /\ out[1].res = "failed"
          /\ failed # <<>>
          /\ failed[Len(failed)] = "(" \o proc[1].env \o ") " \o proc[1].cmd[2]
    /\ pc # "wait" => Len(failed) = Cardinality(OtherExits)
    /\ (Completed /\ OtherExits # {}) => exit_code = <<1>> /\ how = "return"

\* C2 witness: the matrix completed, the last child was killed by a signal, and
\* main() returned 1
C2_Witness ==
    /\ Completed
    /\ proc[1].returncode = <<-9>>
    /\ failed = <<"(ninja) ./gyptest-a.py">>
    /\ exit_code = <<1>>

\* C3: a child exiting with 2 is classified "skipped" and adds nothing to the
\* failure list; when every child exited with 0 or 2 the failure list is empty
\* and main() returns 0; main() never returns 2.
C3_SkippedIsNotFailure ==
    /\ (JustExited /\ proc[1].returncode = <<2>>) =>
          /\ out[1].res = "skipped"
          /\ Len(failed) = Cardinality(OtherExits \ {Len(launched)})
    /\ (pc \in {"report", "done"} /\ tests # <<>> /\ format_list # <<>>
        /\ OtherExits = {}) => failed = <<>>
    /\ (Completed /\ OtherExits = {}) => exit_code = <<0>> /\ how = "return"
    /\ how \in {"return", "sys.exit", "raise"} => exit_code \in {<<0>>, <<1>>}

\* C3 witness: the matrix completed with a first child that passed and a last
\* child that was skipped, and main() returned 0
C3_Witness ==
    /\ Completed
    /\ Len(launched) >= 2
    /\ proc[1].returncode = <<2>>
    /\ exit_code = <<0>>

\* the test selection of the command line is valid
ValidSelection ==
    /\ argv_ok
    /\ args.tests # <<>> \/ args.all
    /\ \A k \in DOMAIN args.tests :
          \/ args.tests[k] \in {"test/", "doc"}
          \/ args.tests[k] = "./gyptest-a.py"

\* C4: with --list and a valid test selection the runner prints the discovered
\* tests, exits with 0 and launches nothing.
C4_ListExitsZero ==
    /\ (ValidSelection /\ args.list) => launched = <<>> /\ pc \in {"start", "done"}
    /\ (ValidSelection /\ args.list /\ pc = "done") =>
          /\ exit_code = <<0>>
          /\ out = [k \in DOMAIN tests |-> [kind |-> "test", text |-> tests[k]]]

\* the argument names a file whose base name is not gyptest*.py
BadArgument(a) ==
    /\ a \notin {"test/", "doc"}
    /\ LET slashes == {k \in 1..Len(a) : SubSeq(a, k, k) = "/"}
           last == IF slashes = {} THEN 0
                   ELSE CHOOSE k \in slashes : \A j \in slashes : j <= k
           base == SubSeq(a, last + 1, Len(a))
       IN  ~(/\ Len(base) >= 7 /\ SubSeq(base, 1, 7) = "gyptest"
             /\ SubSeq(base, Len(base) - 2, Len(base)) = ".py")

\* the command line is a usage error of kind (a) or (b)
UsageError ==
    /\ argv_ok
    /\ \/ args.tests = <<>> /\ ~args.all
       \/ \E k \in DOMAIN args.tests : BadArgument(args.tests[k])

\* C5: on a usage error, (a) no tests and no -a, or (b) an argument that is no
\* directory and whose base name is not a test name, wherever it stands among
\* the arguments, the runner launches nothing and exits with 1.
C5_UsageError ==
    UsageError =>
        /\ launched = <<>>
        /\ pc \in {"start", "done"}
        /\ pc = "done" => exit_code = <<1>>

\* C5 witness: a badly named file after a directory that holds a test ended the
\* run with sys.exit(1)
C5_Witness ==
    /\ args.tests = <<"test/", "gyptest/foo.py">>
    /\ pc = "done"
    /\ how = "sys.exit"
    /\ exit_code = <<1>>
    /\ tests = <<"test/b/gyptest-b.py">>

\* C7: with -n no subprocess is launched.
C7_NoExecHonored == args.no_exec => launched = <<>>

\* C8: with -q neither the configuration header, nor a progress line, nor the
\* summary is printed.
C8_QuietSilent ==
    args.quiet => \A k \in DOMAIN out : out[k].kind \notin {"config", "progress", "summary"}

\* C9: the k-th launch runs test ((k-1) mod n)+1 under format ((k-1) div n)+1,
\* its progress line carries k out of m*n, and no launch happens before the
\* previous child has exited.
C9_FormatMajor ==
    LET n == Len(tests)
        m == Len(format_list)
    IN  /\ \A k \in DOMAIN launched :
              /\ launched[k].cmd[2] = tests[((k - 1) % n) + 1]
              /\ launched[k].env = format_list[((k - 1) \div n) + 1]
              /\ launched[k].index = k
              /\ launched[k].total = m * n
              /\ k < Len(launched) => launched[k].exit # "running"
        /\ Len(launched) <= m * n
        /\ pc = "wait" =>
              /\ out[1].kind = "progress"
              /\ out[1].index = Len(launched)
              /\ out[1].total = m * n
              /\ out[1].format = format_list[((Len(launched) - 1) \div n) + 1]
              /\ proc[1].env = launched[Len(launched)].env

\* C9 witness: the fourth child of a matrix of two formats and two distinct
\* tests is in flight
C9_Witness ==
    /\ pc = "wait"
    /\ format_list = <<"make", "ninja">>
    /\ tests = <<"test/b/gyptest-b.py", "./gyptest-a.py">>
    /\ Len(launched) = 4

\* the lines the latest child's output was echoed as
Echoed == Tail(out)

\* C10 as stated: the captured output is echoed, every line indented, exactly
\* when its last line is not the literal PASSED or NO RESULT.
C10_EchoIffLastLine ==
    JustExited =>
        LET ls == splitlines(proc[1].stdout, "")
            marked == ls # <<>> /\ ls[Len(ls)] \in {"PASSED", "NO RESULT"}
        IN  Echoed = IF marked THEN <<>>
                     ELSE [k \in DOMAIN ls |-> [kind |-> "echo", text |-> "    " \o ls[k]]]

\* C10 (amended): the captured output is echoed, every line indented, exactly
\* when it does not end with the text "PASSED\n" or "NO RESULT\n", whatever the
\* classification of the invocation.
C10_EchoIffNoSuffix ==
    JustExited =>
        LET so == proc[1].stdout
            ls == splitlines(so, "")
            marked == \/ Len(so) >= 7 /\ SubSeq(so, Len(so) - 6, Len(so)) = "PASSED\n"
                      \/ Len(so) >= 10 /\ SubSeq(so, Len(so) - 9, Len(so)) = "NO RESULT\n"
        IN  /\ out[1].res \in {"passed", "failed", "skipped"}
            /\ Echoed = IF marked THEN <<>>
                        ELSE [k \in DOMAIN ls |-> [kind |-> "echo", text |-> "    " \o ls[k]]]

\* C10 witness: a child that passed and whose two lines of output were echoed
C10_Witness ==
    /\ JustExited
    /\ out[1].res = "passed"
    /\ proc[1].stdout = "oops\nFAILED\n"
    /\ Len(Echoed) = 2

====
